---------------------------- MODULE Spec2Model ----------------------------
(***************************************************************************)
(* State machine of the React client (App component): the session state    *)
(* held by the client, the requirement-to-issue generation call and the    *)
(* concurrent bulk creation of the selected issues.                        *)
(*                                                                         *)
(* A handler is one action: its synchronous part up to its first await,    *)
(* where the handler is suspended.  The resolution of the awaited network  *)
(* call is another action, which runs the rest of the handler (a browser   *)
(* task followed by its microtasks, which no other task interleaves).      *)
(* `await fetch` followed by `await response.json()` is one resolution:    *)
(* the handler changes no state between the two.  State setters called in  *)
(* a handler are applied before the next event is handled, and a disabled  *)
(* button receives no click.                                               *)
(*                                                                         *)
(* Indices of generatedIssues are the 0-based JavaScript indices; the      *)
(* sequence generatedIssues itself is 1-based, see At.  A Set is kept as   *)
(* the sequence of its elements in insertion order, the order in which     *)
(* Array.from lists them.                                                  *)
(*                                                                         *)
(* Spec and SpecCall are the session, generation and commit handlers of    *)
(* the client.  SpecEdit adds the edit dialog to session start and         *)
(* generation, SpecText the ways a requirement text is entered.  SpecSynth *)
(* is the backend's synthesizer serving one request and SpecAuth the login *)
(* flow with the session credential it issues; the backend is described,   *)
(* not listed, in the repository, and is modelled from its specification.  *)
(*                                                                         *)
(* The preview dialog and the reload of the page after the login redirect  *)
(* are not part of this model.                                             *)
(***************************************************************************)
EXTENDS Integers, Sequences, FiniteSets, TLC

\* ------------------------------------------------------------------ bounds
\* Longest issue list the generation endpoint returns.
MaxIssues == 2
\* Number of commits that are unfinished or whose timer is still pending.
MaxCommits == 1
\* Commits with a call in flight or a timer pending at once, where the edit
\* dialog is part of the specification.
MaxBatches == 2
\* Number of logout requests in flight at once.
MaxLogouts == 1
\* Number of changes made to the fields of the edit dialog.
MaxEdits == 2

\* ------------------------------------------------------------ value spaces
NoUser == "null"
NoRepo == "null"
\* The value undefined of JavaScript.
Undefined == [undefined |-> TRUE]
IsUndefined(x) == "undefined" \in DOMAIN x

\* The identity /api/auth/me answers with.
ServerUser == "octocat"
\* The full_name of the repositories /api/github/repositories answers with.
ServerRepos == <<"octocat/alpha">>

\* Requirement texts of the text area: empty, blank, a document.
MarkdownTexts == {"", " ", "# req"}

\* trim() of a requirement text or of a label.
Trim(s) == CASE s = " " -> "" [] s = " bug " -> "bug" [] OTHER -> s

\* The empty string as a title or a body, which are kept as tuples.
EmptyText == <<>>
\* What is typed into the title and the body field of the edit dialog.
TitleInputs == {EmptyText, <<"edited title">>}
BodyInputs == {EmptyText, <<"edited body">>}
\* What is entered as a new label: blank, new, new with blanks around it,
\* and the label the generated issues carry.
LabelInputs == {" ", "bug", " bug ", "label"}
\* The edit dialog closed, open on the issue at index, and the record the
\* dialog holds while it is closed.
ClosedModal == [isOpen |-> FALSE]
OpenModal(index) == [isOpen |-> TRUE, index |-> index]
BlankIssue == [title |-> EmptyText, body |-> EmptyText, labels |-> <<>>, priority |-> 1]

\* The k-th issue record of a generation response.
IssueOf(k) ==
    [title |-> <<"title", k>>, body |-> <<"body", k>>,
     labels |-> <<"label">>, priority |-> k]

\* The issue lists a generation response carries: 0..MaxIssues records.
ServerIssueLists == {[k \in 1..n |-> IssueOf(k)] : n \in 0..MaxIssues}

\* html_url of the issue the tracker created for a request.
HtmlUrl(req) == <<"html_url", req.repository, req.title>>

\* error messages (the state `error`); the commit result carries its counts.
NoError == <<"null">>
ErrNeedRepo == <<"select a repository first">>
ErrRepoLoad == <<"repository load failed">>
ErrGenerate == <<"issue generation failed">>
ErrAllFailed == <<"all issue creations failed">>
ErrCreate == <<"issue creation failed">>
\* The message of the mount effect when the address carries an error parameter.
ErrAuth == <<"authentication error">>
MsgCreated(nOk, nFailed) ==
    IF nFailed > 0 THEN <<"created", nOk, "failed", nFailed>>
    ELSE <<"created", nOk>>

\* ------------------------------------------------- synthesizer: value spaces
\* Most candidates of one model response.
MaxCandidates == 2
\* The allowed range of a priority.
PriorityMin == 1
PriorityMax == 5

\* JSON values of a model response: a string, a number.
Str(s) == [str |-> s]
Num(n) == [num |-> n]
IsString(v) == "str" \in DOMAIN v
IsNumber(v) == "num" \in DOMAIN v

\* The sequences over S of length at most n.
SeqsUpTo(S, n) == UNION {[1..k -> S] : k \in 0..n}

\* Entries of a candidate's labels: two strings and a number.
LabelEntries == {Str("bug"), Str("feature"), Num(7)}
\* A candidate's labels: the lists of entries up to the length at which every
\* entry can occur, and then each of them twice or more in shorter ones.
LabelLists == SeqsUpTo(LabelEntries, Cardinality(LabelEntries))

\* A candidate's priority: in range, at either end of it, just outside, far
\* outside, and not a number.
PriorityValues ==
    {Num(PriorityMin - 1), Num(PriorityMin), Num(3), Num(PriorityMax),
     Num(PriorityMax + 1), Num(7), Str("high")}

\* A well-formed candidate and its variations: another title, an empty title,
\* no title; no body; any labels, no labels; any priority, no priority.  A
\* field a candidate lacks is a field the record lacks.
GoodCandidate ==
    [title |-> Str("A"), body |-> Str("a"), labels |-> <<Str("bug")>>,
     priority |-> Num(2)]
Without(c, field) == [f \in DOMAIN c \ {field} |-> c[f]]
Candidates ==
    {GoodCandidate, [GoodCandidate EXCEPT !.title = Str("B")],
     [GoodCandidate EXCEPT !.title = Str("")], Without(GoodCandidate, "title"),
     Without(GoodCandidate, "body"), Without(GoodCandidate, "labels"),
     Without(GoodCandidate, "priority")}
    \cup {[GoodCandidate EXCEPT !.labels = l] : l \in LabelLists}
    \cup {[GoodCandidate EXCEPT !.priority = p] : p \in PriorityValues}

\* What the generative model answers: text that does not parse to a mapping
\* with a list of candidates, or such a mapping.
Unparseable == [unparseable |-> TRUE]
ModelResponses ==
    {Unparseable} \cup {[issues |-> cs] : cs \in SeqsUpTo(Candidates, MaxCandidates)}
NoResponse == [none |-> TRUE]
NoSynthesis == [none |-> TRUE]


\* ----------------------------------------------------- session: value spaces
\* Latest minute at which an authorization completes.
MaxIssueAt == 1
\* Minutes the clock runs on after a credential has expired.
MaxLate == 2
\* ACCESS_TOKEN_EXPIRE_MINUTES
ExpireMinutes == 1440

\* The process-wide signing key, and a key that is not it.
SecretKey == "SECRET_KEY"
OtherKey == "guessed key"
\* The identities and delegated access tokens the provider hands out.
Identities == {ServerUser, "hubot"}
DelegatedTokens == {"gho_1", "gho_2"}
\* The authorization codes and the anti-forgery state values of a callback.
AuthorizationCodes == {"code"}
StateValues == {"s1", "s2"}

\* The delegated token as the credential carries it, and back.
Encrypt(token, key) == <<"encrypted", key, token>>
Decrypt(box, key) == IF box[2] = key THEN box[3] ELSE "garbage"
\* The signature of the claims under a key.
Sign(claims, key) == <<"HS256", key, claims>>

NoCredential == [none |-> TRUE]
NoVerification == [none |-> TRUE]
\* The flow before the login button was pressed.
NoFlow ==
    [stage |-> "idle", issued |-> "none", state |-> "none", token |-> "none",
     identity |-> "none", outcome |-> "none"]
ErrConfig == <<"configuration could not be loaded">>
ErrNoClientId == <<"GitHub client id is not configured">>

\* -------------------------------------------------- requirement text: sizes
\* Number of files being read at once.
MaxReads == 1
\* maxSize of validateFile: 5 MB.
maxSize == 5 * 1024 * 1024
\* A requirement text of exactly maxSize characters, and one of one more.
MaxText == "# req of 5 MB"
BigText == "# req beyond 5 MB"
\* The sample the backend serves.
SampleText == "# sample"
\* The length of a text.
Size(text) ==
    CASE text = "" -> 0
      [] text = " " -> 1
      [] text = MaxText -> maxSize
      [] text = BigText -> maxSize + 1
      [] OTHER -> 5
\* What can be typed or pasted into the text area: any text.
TypedTexts == MarkdownTexts \cup {MaxText, BigText}
\* toLowerCase() of the extension of a file name.
ToLowerCase(ext) == IF ext = ".MD" THEN ".md" ELSE ext
allowedExtensions == {".md", ".txt", ".markdown"}
\* A file of readable text: its name as stem and extension, its size, which is
\* the length of its content.
File(stem, ext, content) ==
    [name |-> <<stem, ext>>, size |-> Size(content), content |-> content]
Files ==
    {File("req", ".md", "# req"), File("REQ", ".MD", MaxText),
     File("big", ".txt", BigText), File("req", ".pdf", "# req")}
NoUploadError == <<"null">>
ErrExtension == <<"supported file types: .md, .txt, .markdown">>
ErrSize == <<"file size must be 5MB or less">>
ErrRead == <<"the file could not be read">>
NoText == "none"

\* ------------------------------------------------------------------- state
VARIABLES
    user,             \* useState<User | null>
    loading,          \* useState(true)
    error,            \* useState<string | null>
    repositories,     \* useState<Repository[]>
    selectedRepo,     \* useState<Repository | null>
    selectedIssues,   \* useState<Set<number>>: a Set iterates in insertion order
    loadingRepos,     \* useState(false)
    creatingIssues,   \* useState(false)
    generatedIssues,  \* useState<GeneratedIssue[]>
    markdownContent,  \* useState("")
    generatingIssues  \* useState(false)

VARIABLES
    authCall,     \* the /api/auth/me call of checkAuthStatus: in flight, or how it ended
    repoCalls,    \* number of /api/github/repositories calls in flight
    logoutCalls,  \* number of /api/auth/logout calls in flight
    genCalls,     \* the /api/llm/generate-issues calls in flight: await points
    commits,      \* the createSelectedIssues invocations: their locals and calls
    timers,       \* number of pending setTimeout(() => setError(null), 10000)
    lastCommit,   \* how the last createSelectedIssues invocation left its guard
    genRequests,  \* requests the last generateIssues invocation has sent
    lastGeneration, \* how the last generate-issues call ended
    unhandled     \* an exception or rejection left a handler uncaught

clientVars ==
    <<user, loading, error, repositories, selectedRepo, selectedIssues,
      loadingRepos, creatingIssues, generatedIssues, markdownContent,
      generatingIssues>>

callVars ==
    <<authCall, repoCalls, logoutCalls, genCalls, commits, timers, lastCommit,
      genRequests, lastGeneration, unhandled>>

VARIABLES
    synthCall,      \* the synthesizer's request: idle, waiting for the model, done
    modelResponse,  \* the response of the generative model, once it has answered
    synthesis       \* what the synthesizer returned: the records and the error

synthVars == <<synthCall, modelResponse, synthesis>>

VARIABLES
    editModal,     \* useState<{isOpen, issue, index}>: index is absent for null
    editingIssue,  \* useState<GeneratedIssue>
    edits          \* number of changes made to the fields of the edit dialog

editVars == <<editModal, editingIssue, edits>>

VARIABLES
    now,       \* the server's clock, in minutes
    authFlow,  \* the authorization flow: its stage and what it has obtained
    cookie,    \* the session credential the browser holds for the backend
    verified   \* the credential presented with the request served now, verified

sessionVars == <<now, authFlow, cookie, verified>>

VARIABLES
    uploadError,     \* useState<string | null>
    sampleMarkdown,  \* useState("")
    fileReads,       \* the files readFile is reading: handleFileUpload awaits
    sentText         \* markdown_content of the last generation request

textVars == <<uploadError, sampleMarkdown, fileReads, sentText>>

\* The state the session, generation and commit handlers leave alone.
restVars == <<synthVars, editVars, sessionVars, textVars>>

vars == <<clientVars, callVars, restVars>>

\* ----------------------------------------------------------------- helpers
Range(s) == {s[i] : i \in DOMAIN s}

\* arr[index] of JavaScript for a 0-based index: undefined out of range.
At(arr, index) == IF index + 1 \in DOMAIN arr THEN arr[index + 1] ELSE Undefined

\* set.has(index) for a Set kept as its insertion-ordered sequence.
Has(set, index) == \E i \in DOMAIN set : set[i] = index

\* set.delete(index)
Delete(set, index) == SelectSeq(set, LAMBDA x : x # index)

\* set.add(index)
Add(set, index) == IF Has(set, index) THEN set ELSE Append(set, index)

\* new Set(arr): the elements in the order of their first occurrence.
SetOf(arr) ==
    LET F[i \in 0..Len(arr)] == IF i = 0 THEN <<>> ELSE Add(F[i - 1], arr[i])
    IN  F[Len(arr)]

\* undefined as an element of the selection: what new Set(arr) takes from a
\* hole of arr.  It is the index of no entry.
NoIndex == -1

\* The main view is rendered: not the spinner, not the logged-out view.
MainView == ~loading /\ user # NoUser

\* The alert with the error message is on the screen: it is part of the main
\* view only, the spinner and the logged-out view do not render the message.
ErrorAlert == MainView /\ error # NoError


\* -------------------------------------------------------------------- Init
\* The state after the first render and the mount effect: checkAuthStatus has
\* sent its request, and the error parameter of the address, if there is one,
\* has been put into the message.
Init ==
    /\ user = NoUser
    /\ loading = TRUE
    /\ error \in {NoError, ErrAuth}
    /\ repositories = <<>>
    /\ selectedRepo = NoRepo
    /\ selectedIssues = <<>>
    /\ loadingRepos = FALSE
    /\ creatingIssues = FALSE
    /\ generatedIssues = <<>>
    /\ markdownContent = ""
    /\ generatingIssues = FALSE
    /\ authCall = "fetch"
    /\ repoCalls = 0
    /\ logoutCalls = 0
    /\ genCalls = 0
    /\ commits = <<>>
    /\ timers = 0
    /\ lastCommit = "none"
    /\ genRequests = 0
    /\ lastGeneration = "none"
    /\ unhandled = FALSE
    /\ synthCall = "idle"
    /\ modelResponse = NoResponse
    /\ synthesis = NoSynthesis
    /\ editModal = ClosedModal
    /\ editingIssue = BlankIssue
    /\ edits = 0
    /\ now = 0
    /\ authFlow = NoFlow
    /\ cookie = NoCredential
    /\ verified = NoVerification
    /\ uploadError = NoUploadError
    /\ sampleMarkdown = ""
    /\ fileReads = <<>>
    /\ sentText = NoText

\* ------------------------------------------------- session and repositories
\* loadRepositories up to its await.
LoadRepositoriesStart ==
    /\ loadingRepos' = TRUE
    /\ error' = NoError
    /\ repoCalls' = repoCalls + 1

\* checkAuthStatus: the response is ok and its body parses; setUser, then
\* loadRepositories(), then the finally block.
CheckAuthStatusOk ==
    /\ authCall = "fetch"
    /\ authCall' = "ok"
    /\ user' = ServerUser
    /\ LoadRepositoriesStart
    /\ loading' = FALSE
    /\ UNCHANGED <<repositories, selectedRepo, selectedIssues, creatingIssues,
                   generatedIssues, markdownContent, generatingIssues>>
    /\ UNCHANGED <<logoutCalls, genCalls, commits, timers, lastCommit,
                   genRequests, lastGeneration, unhandled>>
    /\ UNCHANGED restVars

\* A checkAuthStatus that takes the body of a response that is not ok.
CheckAuthStatusFailsSetsUser ==
    /\ authCall = "fetch"
    /\ authCall' = "failed"
    /\ user' = ServerUser
    /\ loading' = FALSE
    /\ UNCHANGED <<error, repositories, selectedRepo, selectedIssues,
                   loadingRepos, creatingIssues, generatedIssues,
                   markdownContent, generatingIssues>>
    /\ UNCHANGED <<repoCalls, logoutCalls, genCalls, commits, timers, lastCommit,
                   genRequests, lastGeneration, unhandled>>
    /\ UNCHANGED restVars

\* checkAuthStatus: the response is not ok, or the fetch or the body rejects.
CheckAuthStatusFails ==
    /\ authCall = "fetch"
    /\ authCall' = "failed"
    /\ loading' = FALSE
    /\ UNCHANGED <<user, error, repositories, selectedRepo, selectedIssues,
                   loadingRepos, creatingIssues, generatedIssues,
                   markdownContent, generatingIssues>>
    /\ UNCHANGED <<repoCalls, logoutCalls, genCalls, commits, timers, lastCommit,
                   genRequests, lastGeneration, unhandled>>
    /\ UNCHANGED restVars

\* loadRepositories: the response is ok; setRepositories, then finally.
LoadRepositoriesOk ==
    /\ repoCalls > 0
    /\ repoCalls' = repoCalls - 1
    /\ repositories' = ServerRepos
    /\ loadingRepos' = FALSE
    /\ UNCHANGED <<user, loading, error, selectedRepo, selectedIssues,
                   creatingIssues, generatedIssues, markdownContent,
                   generatingIssues>>
    /\ UNCHANGED <<authCall, logoutCalls, genCalls, commits, timers, lastCommit,
                   genRequests, lastGeneration, unhandled>>
    /\ UNCHANGED restVars

\* loadRepositories: the response is not ok or the fetch rejects.
LoadRepositoriesFails ==
    /\ repoCalls > 0
    /\ repoCalls' = repoCalls - 1
    /\ error' = ErrRepoLoad
    /\ loadingRepos' = FALSE
    /\ UNCHANGED <<user, loading, repositories, selectedRepo, selectedIssues,
                   creatingIssues, generatedIssues, markdownContent,
                   generatingIssues>>
    /\ UNCHANGED <<authCall, logoutCalls, genCalls, commits, timers, lastCommit,
                   genRequests, lastGeneration, unhandled>>
    /\ UNCHANGED restVars

\* handleLogout up to its await: the logout request is sent.
HandleLogout ==
    /\ MainView
    /\ logoutCalls < MaxLogouts
    /\ logoutCalls' = logoutCalls + 1
    /\ UNCHANGED clientVars
    /\ UNCHANGED <<authCall, repoCalls, genCalls, commits, timers, lastCommit,
                   genRequests, lastGeneration, unhandled>>
    /\ UNCHANGED restVars

\* A handleLogout that aborts the creation calls in flight with its session.
HandleLogoutDoneAborts ==
    /\ logoutCalls > 0
    /\ logoutCalls' = logoutCalls - 1
    /\ user' = NoUser
    /\ error' = NoError
    /\ repositories' = <<>>
    /\ selectedRepo' = NoRepo
    /\ selectedIssues' = <<>>
    /\ generatedIssues' = <<>>
    /\ markdownContent' = ""
    /\ commits' = [k \in DOMAIN commits |->
                     [commits[k] EXCEPT !.calls =
                        [i \in DOMAIN commits[k].calls |->
                           IF commits[k].calls[i].st = "fetch"
                              THEN [commits[k].calls[i] EXCEPT !.st = "aborted"]
                              ELSE commits[k].calls[i]]]]
    /\ UNCHANGED <<loading, loadingRepos, creatingIssues, generatingIssues>>
    /\ UNCHANGED <<authCall, repoCalls, genCalls, timers, lastCommit,
                   genRequests, lastGeneration, unhandled>>
    /\ UNCHANGED restVars

\* A handleLogout that keeps the generated issues and their selection.
HandleLogoutDoneKeepsIssues ==
    /\ logoutCalls > 0
    /\ logoutCalls' = logoutCalls - 1
    /\ user' = NoUser
    /\ error' = NoError
    /\ repositories' = <<>>
    /\ selectedRepo' = NoRepo
    /\ markdownContent' = ""
    /\ UNCHANGED <<selectedIssues, generatedIssues>>
    /\ UNCHANGED <<loading, loadingRepos, creatingIssues, generatingIssues>>
    /\ UNCHANGED <<authCall, repoCalls, genCalls, commits, timers, lastCommit,
                   genRequests, lastGeneration, unhandled>>
    /\ UNCHANGED restVars

\* handleLogout after its await: the response arrived, whatever its status.
HandleLogoutDone ==
    /\ logoutCalls > 0
    /\ logoutCalls' = logoutCalls - 1
    /\ user' = NoUser
    /\ error' = NoError
    /\ repositories' = <<>>
    /\ selectedRepo' = NoRepo
    /\ selectedIssues' = <<>>
    /\ generatedIssues' = <<>>
    /\ markdownContent' = ""
    /\ UNCHANGED <<loading, loadingRepos, creatingIssues, generatingIssues>>
    /\ UNCHANGED <<authCall, repoCalls, genCalls, commits, timers, lastCommit,
                   genRequests, lastGeneration, unhandled>>
    /\ UNCHANGED restVars

\* handleLogout: the fetch rejects; the catch block only logs.
HandleLogoutFails ==
    /\ logoutCalls > 0
    /\ logoutCalls' = logoutCalls - 1
    /\ UNCHANGED clientVars
    /\ UNCHANGED <<authCall, repoCalls, genCalls, commits, timers, lastCommit,
                   genRequests, lastGeneration, unhandled>>
    /\ UNCHANGED restVars

\* onChange of the repository select: the chosen repository or none.
SelectRepository(repo) ==
    /\ MainView
    /\ ~loadingRepos
    /\ repo # selectedRepo
    /\ selectedRepo' = repo
    /\ generatedIssues' = <<>>
    /\ selectedIssues' = <<>>
    /\ UNCHANGED <<user, loading, error, repositories, loadingRepos,
                   creatingIssues, markdownContent, generatingIssues>>
    /\ UNCHANGED callVars
    /\ UNCHANGED restVars

\* onChange of the requirement text area, file upload, sample, clear.
SetMarkdownContent(text) ==
    /\ MainView
    /\ text # markdownContent
    /\ markdownContent' = text
    /\ UNCHANGED <<user, loading, error, repositories, selectedRepo,
                   selectedIssues, loadingRepos, creatingIssues,
                   generatedIssues, generatingIssues>>
    /\ UNCHANGED callVars
    /\ UNCHANGED restVars

\* ---------------------------------------------------------------- selection
\* toggleIssueSelection(index) from the checkbox of a row; the list is rendered
\* with map, which makes no row for a hole.
ToggleIssueSelection(index) ==
    /\ MainView
    /\ index + 1 \in DOMAIN generatedIssues
    /\ ~IsUndefined(At(generatedIssues, index))
    /\ selectedIssues' = IF Has(selectedIssues, index)
                            THEN Delete(selectedIssues, index)
                            ELSE Add(selectedIssues, index)
    /\ UNCHANGED <<user, loading, error, repositories, selectedRepo,
                   loadingRepos, creatingIssues, generatedIssues,
                   markdownContent, generatingIssues>>
    /\ UNCHANGED callVars
    /\ UNCHANGED restVars

\* selectAllIssues: map keeps the holes of the list, and new Set reads each of
\* them as undefined.
SelectAllIssues ==
    /\ MainView
    /\ Len(generatedIssues) # 0
    /\ selectedIssues' = IF Len(selectedIssues) = Len(generatedIssues)
                            THEN <<>>
                            ELSE SetOf([i \in 1..Len(generatedIssues) |->
                                          IF IsUndefined(generatedIssues[i])
                                             THEN NoIndex ELSE i - 1])
    /\ UNCHANGED <<user, loading, error, repositories, selectedRepo,
                   loadingRepos, creatingIssues, generatedIssues,
                   markdownContent, generatingIssues>>
    /\ UNCHANGED callVars
    /\ UNCHANGED restVars

\* ---------------------------------------------------------------- generate
\* The generate button is enabled.
GenerateEnabled ==
    /\ MainView
    /\ ~generatingIssues
    /\ Trim(markdownContent) # ""
    /\ selectedRepo # NoRepo

\* generateIssues up to its await: the guard, the resets, one request.
GenerateIssuesHandler ==
    /\ IF selectedRepo = NoRepo
          THEN /\ error' = ErrNeedRepo
               /\ genRequests' = 0
               /\ UNCHANGED <<generatingIssues, generatedIssues, selectedIssues,
                              genCalls, lastGeneration, sentText>>
          ELSE /\ generatingIssues' = TRUE
               /\ error' = NoError
               /\ generatedIssues' = <<>>
               /\ selectedIssues' = <<>>
               /\ genCalls' = genCalls + 1
               /\ genRequests' = 1
               /\ lastGeneration' = "pending"
               /\ sentText' = markdownContent
    /\ UNCHANGED <<user, loading, repositories, selectedRepo, loadingRepos,
                   creatingIssues, markdownContent>>
    /\ UNCHANGED <<authCall, repoCalls, logoutCalls, commits, timers,
                   lastCommit, unhandled>>
    /\ UNCHANGED <<synthVars, editVars, sessionVars, uploadError,
                   sampleMarkdown, fileReads>>

\* A click on the generate button.
GenerateIssues ==
    /\ GenerateEnabled
    /\ GenerateIssuesHandler

\* generateIssues: response ok and the body parses to an object; the issue
\* list of the body, or [] when it has none, is installed; then finally.
GenerateIssuesOk(issues) ==
    /\ genCalls > 0
    /\ genCalls' = genCalls - 1
    /\ generatedIssues' = issues
    /\ generatingIssues' = FALSE
    /\ lastGeneration' = "ok"
    /\ UNCHANGED <<user, loading, error, repositories, selectedRepo,
                   selectedIssues, loadingRepos, creatingIssues,
                   markdownContent>>
    /\ UNCHANGED <<authCall, repoCalls, logoutCalls, commits, timers,
                   lastCommit, genRequests, unhandled>>
    /\ UNCHANGED restVars

\* A catch block that sends the request again.
GenerateCatchRetries ==
    /\ error' = ErrGenerate
    /\ genCalls' = genCalls
    /\ genRequests' = genRequests + 1
    /\ UNCHANGED <<generatedIssues, unhandled>>

\* No catch block: the failure leaves generateIssues uncaught.
GenerateCatchRethrows ==
    /\ unhandled' = TRUE
    /\ genCalls' = genCalls - 1
    /\ UNCHANGED <<error, genRequests, generatedIssues>>

\* The catch block of generateIssues: it reports and sends nothing.
GenerateCatch ==
    /\ error' = ErrGenerate
    /\ genCalls' = genCalls - 1
    /\ UNCHANGED <<genRequests, generatedIssues, unhandled>>

\* A generateIssues without its finally block on the failure path.
GenerateIssuesFailsNoFinally ==
    /\ genCalls > 0
    /\ GenerateCatch
    /\ lastGeneration' = "failed"
    /\ UNCHANGED <<user, loading, repositories, selectedRepo, selectedIssues,
                   loadingRepos, creatingIssues, markdownContent,
                   generatingIssues>>
    /\ UNCHANGED <<authCall, repoCalls, logoutCalls, commits, timers,
                   lastCommit>>
    /\ UNCHANGED restVars

\* generateIssues: the fetch rejects, the response is not ok, or the body does
\* not parse to an object; the catch block, then finally.
GenerateIssuesFails ==
    /\ genCalls > 0
    /\ GenerateCatch
    /\ generatingIssues' = FALSE
    /\ lastGeneration' = "failed"
    /\ UNCHANGED <<user, loading, repositories, selectedRepo, selectedIssues,
                   loadingRepos, creatingIssues, markdownContent>>
    /\ UNCHANGED <<authCall, repoCalls, logoutCalls, commits, timers,
                   lastCommit>>
    /\ UNCHANGED restVars

\* ------------------------------------------------------------------ commit
\* The body of one creation request.
CreateRequest(issue, repo) ==
    [repository |-> repo, title |-> issue.title, body |-> issue.body,
     labels |-> issue.labels]

\* One element of createPromises right after the map: the async callback has
\* run up to its await, so the request is sent.  An undefined issue throws in
\* the try block and again in the catch block: the promise is rejected.
\* sent counts the requests of the call.
NewCall(issue, repo) ==
    IF IsUndefined(issue)
       THEN [issue |-> Undefined, req |-> Undefined, st |-> "rejected",
             sent |-> 0]
       ELSE [issue |-> issue, req |-> CreateRequest(issue, repo), st |-> "fetch",
             sent |-> 1]

\* selectedIssuesList: Array.from(selectedIssues).map(index => generatedIssues[index])
SelectedIssuesList(selection, issues) ==
    [i \in 1..Len(selection) |-> At(issues, selection[i])]

\* createPromises built one call at a time: only the first request is sent.
CreatePromisesOneAtATime(list, repo) ==
    [i \in 1..Len(list) |->
       IF i = 1 THEN NewCall(list[i], repo)
       ELSE [NewCall(list[i], repo) EXCEPT !.st = "idle", !.sent = 0]]

\* createPromises: selectedIssuesList.map(async (issue) => ...)
CreatePromises(list, repo) == [i \in 1..Len(list) |-> NewCall(list[i], repo)]

\* The locals of a createSelectedIssues invocation that passed its guard.
NewCommit(selection, issues, repo) ==
    [calls |-> CreatePromises(SelectedIssuesList(selection, issues), repo),
     successfulIssues |-> <<>>,
     failedIssues |-> <<>>,
     joined |-> "pending"]

Settled(call) == call.st \in {"ok", "failed"}

\* Promise.race in place of Promise.all: decided by the first settled call.
PromiseRace(calls) ==
    IF \E i \in DOMAIN calls : calls[i].st = "rejected" THEN "rejected"
    ELSE IF \E i \in DOMAIN calls : Settled(calls[i]) THEN "resolved"
    ELSE "pending"

\* await Promise.all(createPromises): rejected with the first rejection,
\* resolved once every promise is fulfilled, pending otherwise.
PromiseAll(calls) ==
    IF \E i \in DOMAIN calls : calls[i].st = "rejected" THEN "rejected"
    ELSE IF \A i \in DOMAIN calls : Settled(calls[i]) THEN "resolved"
    ELSE "pending"

\* unshift in place of push.
ThenCreateUnshift(c, i) ==
    [c EXCEPT !.successfulIssues = <<HtmlUrl(c.calls[i].req)>> \o @,
              !.calls[i].st = "ok"]

\* The then-path of a creation call: successfulIssues.push(result.html_url)
ThenCreate(c, i) ==
    [c EXCEPT !.successfulIssues = Append(@, HtmlUrl(c.calls[i].req)),
              !.calls[i].st = "ok"]

\* A catch block that records nothing.
CatchCreateDrops(c, i) == [c EXCEPT !.calls[i].st = "failed"]

\* A catch block that throws again: the promise of the call is rejected.
CatchCreateRethrows(c, i) == [c EXCEPT !.calls[i].st = "rejected"]

\* A catch block that sends the request again.
CatchCreateRetries(c, i) == [c EXCEPT !.calls[i].sent = @ + 1]

\* The catch block of a creation call: failedIssues.push(issue.title)
CatchCreate(c, i) ==
    [c EXCEPT !.failedIssues = Append(@, c.calls[i].issue.title),
              !.calls[i].st = "failed"]

\* The message createSelectedIssues sets after the join.
CommitMessage(c) ==
    IF Len(c.successfulIssues) > 0
       THEN MsgCreated(Len(c.successfulIssues), Len(c.failedIssues))
       ELSE ErrAllFailed

\* A continuation that empties the selection after every resolved join.
JoinClearsAlways(k, c) ==
    LET p == IF c.joined = "pending" THEN PromiseAll(c.calls) ELSE "pending"
    IN  /\ commits' = [commits EXCEPT ![k] = [c EXCEPT !.joined =
                          IF p = "pending" THEN c.joined ELSE p]]
        /\ error' = CASE p = "resolved" -> CommitMessage(c)
                      [] p = "rejected" -> ErrCreate
                      [] OTHER -> error
        /\ selectedIssues' = IF p = "resolved" THEN <<>> ELSE selectedIssues
        /\ timers' = IF p = "resolved" THEN timers + 1 ELSE timers
        /\ creatingIssues' = IF p = "pending" THEN creatingIssues ELSE FALSE

\* The rest of createSelectedIssues once every state change of commit k is
\* applied: the continuation of await Promise.all, the catch block, finally.
Join(k, c) ==
    LET p == IF c.joined = "pending" THEN PromiseAll(c.calls) ELSE "pending"
    IN  /\ commits' = [commits EXCEPT ![k] = [c EXCEPT !.joined =
                          IF p = "pending" THEN c.joined ELSE p]]
        /\ error' = CASE p = "resolved" -> CommitMessage(c)
                      [] p = "rejected" -> ErrCreate
                      [] OTHER -> error
        /\ selectedIssues' = IF p = "resolved" /\ Len(c.successfulIssues) > 0
                                THEN <<>> ELSE selectedIssues
        /\ timers' = IF p = "resolved" THEN timers + 1 ELSE timers
        /\ creatingIssues' = IF p = "pending" THEN creatingIssues ELSE FALSE

\* The create button is rendered and enabled.
CreateEnabled ==
    /\ MainView
    /\ Len(generatedIssues) # 0
    /\ Len(selectedIssues) # 0
    /\ ~creatingIssues
    /\ selectedRepo # NoRepo

InFlight(call) == call.st = "fetch"

\* A commit whose locals are still in use: a call is in flight or the join is
\* pending.
Unfinished(c) == c.joined = "pending" \/ \E i \in DOMAIN c.calls : InFlight(c.calls[i])

\* The commits a new invocation leaves reachable.
Live(cs) == SelectSeq(cs, Unfinished)

\* A guard that lets the empty selection through.
CreateGuardIgnoresEmpty == selectedRepo = NoRepo

\* The guard of createSelectedIssues returns at once.
CreateGuardReturns == selectedRepo = NoRepo \/ Len(selectedIssues) = 0

\* createSelectedIssues up to await Promise.all: the guard, the flags, the
\* locals and every creation request; and, when the join is already decided
\* (no promise, or a rejected one), the rest of the handler, which then runs
\* before any other event.
CreateSelectedIssuesHandler ==
    /\ IF CreateGuardReturns
          THEN /\ lastCommit' = "returned"
               /\ UNCHANGED <<creatingIssues, error, commits, selectedIssues,
                              timers>>
          ELSE LET c == NewCommit(selectedIssues, generatedIssues, selectedRepo)
                   p == PromiseAll(c.calls)
               IN  /\ lastCommit' = "dispatched"
                   /\ commits' = Append(Live(commits), [c EXCEPT !.joined = p])
                   /\ creatingIssues' = (p = "pending")
                   /\ error' = CASE p = "resolved" -> CommitMessage(c)
                                 [] p = "rejected" -> ErrCreate
                                 [] OTHER -> NoError
                   /\ timers' = IF p = "resolved" THEN timers + 1 ELSE timers
                   /\ UNCHANGED selectedIssues
    /\ UNCHANGED <<user, loading, repositories, selectedRepo, loadingRepos,
                   generatedIssues, markdownContent, generatingIssues>>
    /\ UNCHANGED <<authCall, repoCalls, logoutCalls, genCalls, genRequests,
                   lastGeneration, unhandled>>
    /\ UNCHANGED restVars

\* The bound of the model on the commits: those unfinished and those whose
\* timer has not fired yet.
CommitBound == Len(Live(commits)) + timers < MaxCommits

\* A click on the create button.
CreateSelectedIssues ==
    /\ CreateEnabled
    /\ CommitBound
    /\ CreateSelectedIssuesHandler

\* What the resolution of a creation call leaves alone.
CallFrame ==
    /\ UNCHANGED <<user, loading, repositories, selectedRepo, loadingRepos,
                   generatedIssues, markdownContent, generatingIssues>>
    /\ UNCHANGED <<authCall, repoCalls, logoutCalls, genCalls, lastCommit,
                   genRequests, lastGeneration, unhandled>>
    /\ UNCHANGED restVars

\* Call i of commit k: the tracker created the issue, the response is ok and
\* its body parses.
CreateIssueOk(k, i) ==
    /\ InFlight(commits[k].calls[i])
    /\ Join(k, ThenCreate(commits[k], i))
    /\ CallFrame

\* Call i of commit k: the fetch rejects, the response is not ok, or its body
\* does not parse.
CreateIssueFails(k, i) ==
    /\ InFlight(commits[k].calls[i])
    /\ Join(k, CatchCreate(commits[k], i))
    /\ CallFrame

\* The timer of a finished commit fires: setError(null).
TimerFires ==
    /\ timers > 0
    /\ timers' = timers - 1
    /\ error' = NoError
    /\ UNCHANGED <<user, loading, repositories, selectedRepo, selectedIssues,
                   loadingRepos, creatingIssues, generatedIssues,
                   markdownContent, generatingIssues>>
    /\ UNCHANGED <<authCall, repoCalls, logoutCalls, genCalls, commits,
                   lastCommit, genRequests, lastGeneration, unhandled>>
    /\ UNCHANGED restVars

\* -------------------------------------------------------------------- Next
Next ==
    \/ CheckAuthStatusOk
    \/ CheckAuthStatusFails
    \/ LoadRepositoriesOk
    \/ LoadRepositoriesFails
    \/ HandleLogout
    \/ HandleLogoutDone
    \/ HandleLogoutFails
    \/ \E repo \in Range(repositories) \cup {NoRepo} : SelectRepository(repo)
    \/ \E text \in MarkdownTexts : SetMarkdownContent(text)
    \/ \E index \in 0..(MaxIssues - 1) : ToggleIssueSelection(index)
    \/ SelectAllIssues
    \/ GenerateIssues
    \/ \E issues \in ServerIssueLists : GenerateIssuesOk(issues)
    \/ GenerateIssuesFails
    \/ CreateSelectedIssues
    \/ \E k \in DOMAIN commits : \E i \in DOMAIN commits[k].calls :
          \/ CreateIssueOk(k, i)
          \/ CreateIssueFails(k, i)
    \/ TimerFires

Spec == Init /\ [][Next]_vars

\* Some creation call in flight gets its answer, of either kind.
ResolveCreate ==
    \E k \in DOMAIN commits : \E i \in DOMAIN commits[k].calls :
        \/ CreateIssueOk(k, i)
        \/ CreateIssueFails(k, i)

\* The generation call in flight gets its answer, of either kind.
ResolveGenerate ==
    \/ \E issues \in ServerIssueLists : GenerateIssuesOk(issues)
    \/ GenerateIssuesFails

\* The client when every creation call and every generation call in flight
\* is answered at some time; nothing is asked of the user's own steps.
NextFair ==
    \/ CheckAuthStatusOk
    \/ CheckAuthStatusFails
    \/ LoadRepositoriesOk
    \/ LoadRepositoriesFails
    \/ HandleLogout
    \/ HandleLogoutDone
    \/ HandleLogoutFails
    \/ \E repo \in Range(repositories) \cup {NoRepo} : SelectRepository(repo)
    \/ SetMarkdownContent("# req")
    \/ \E index \in 0..(MaxIssues - 1) : ToggleIssueSelection(index)
    \/ SelectAllIssues
    \/ GenerateIssues
    \/ CreateSelectedIssues
    \/ ResolveGenerate
    \/ ResolveCreate
    \/ TimerFires

SpecFair ==
    /\ Init
    /\ [][NextFair]_vars
    /\ WF_vars(ResolveCreate)
    /\ WF_vars(ResolveGenerate)

\* createSelectedIssues called with any selection and any repository, the
\* empty selection and no repository included, while no commit is in
\* progress: the guard of the handler itself decides.
CreateSelectedIssuesCall ==
    /\ MainView
    /\ ~creatingIssues
    /\ CommitBound
    /\ CreateSelectedIssuesHandler

NextCall == Next \/ CreateSelectedIssuesCall

\* The client with the commit operation also called directly.
SpecCall == Init /\ [][NextCall]_vars

\* ------------------------------------------------------------- edit dialog
\* What the handlers of the edit dialog leave alone, generatedIssues aside.
EditFrame ==
    /\ UNCHANGED <<user, loading, error, repositories, selectedRepo,
                   selectedIssues, loadingRepos, creatingIssues,
                   markdownContent, generatingIssues>>
    /\ UNCHANGED <<callVars, synthVars, sessionVars, textVars>>

\* openEditModal from the edit button of the issue at index.
OpenEditModal(index) ==
    /\ MainView
    /\ index < Len(generatedIssues)
    /\ ~IsUndefined(At(generatedIssues, index))
    /\ editingIssue' = At(generatedIssues, index)
    /\ editModal' = OpenModal(index)
    /\ UNCHANGED <<generatedIssues, edits>>
    /\ EditFrame

\* The edit dialog is rendered.
EditModalOpen == MainView /\ editModal.isOpen

\* A change of a field of the dialog ends in setEditingIssue(issue).
SetEditingIssue(issue) ==
    /\ EditModalOpen
    /\ edits < MaxEdits
    /\ edits' = edits + 1
    /\ editingIssue' = issue
    /\ UNCHANGED <<generatedIssues, editModal>>
    /\ EditFrame

\* onChange of the title input.
SetEditingTitle(title) == SetEditingIssue([editingIssue EXCEPT !.title = title])

\* onChange of the body text area.
SetEditingBody(body) == SetEditingIssue([editingIssue EXCEPT !.body = body])

\* onChange of the priority range input, whose values are 1..5.
SetEditingPriority(priority) ==
    SetEditingIssue([editingIssue EXCEPT !.priority = priority])

\* An addLabel that does not look whether the list has the label already.
AddLabelAgain(label) ==
    /\ Trim(label) # ""
    /\ SetEditingIssue([editingIssue EXCEPT !.labels = Append(@, Trim(label))])

\* addLabel: the trimmed label is appended unless it is empty or included.
AddLabel(label) ==
    /\ Trim(label) # ""
    /\ Trim(label) \notin Range(editingIssue.labels)
    /\ SetEditingIssue([editingIssue EXCEPT !.labels = Append(@, Trim(label))])

\* removeLabel from the button of a label shown.
RemoveLabel(labelToRemove) ==
    SetEditingIssue([editingIssue EXCEPT
                        !.labels = SelectSeq(@, LAMBDA label : label # labelToRemove)])

\* closeEditModal, as the handlers call it.
CloseEditModalCall ==
    /\ editModal' = ClosedModal
    /\ editingIssue' = BlankIssue

\* closeEditModal from the cancel button or the backdrop.
CloseEditModal ==
    /\ EditModalOpen
    /\ CloseEditModalCall
    /\ UNCHANGED <<generatedIssues, edits>>
    /\ EditFrame

\* newIssues[index] = issue on a copy of the array: the entries between the
\* end of the array and index are holes, which read as undefined.
Assign(arr, index, issue) ==
    [i \in 1..(IF index + 1 > Len(arr) THEN index + 1 ELSE Len(arr)) |->
        IF i = index + 1 THEN issue
        ELSE IF i <= Len(arr) THEN arr[i] ELSE Undefined]

\* saveEditedIssue from the save button.
SaveEditedIssue ==
    /\ EditModalOpen
    /\ IF "index" \in DOMAIN editModal
          THEN /\ generatedIssues' =
                      Assign(generatedIssues, editModal.index, editingIssue)
               /\ CloseEditModalCall
          ELSE UNCHANGED <<generatedIssues, editModal, editingIssue>>
    /\ UNCHANGED edits
    /\ EditFrame

\* The handlers of the edit dialog.
EditNext ==
    \/ \E index \in 0..(MaxIssues - 1) : OpenEditModal(index)
    \/ \E title \in TitleInputs : SetEditingTitle(title)
    \/ \E body \in BodyInputs : SetEditingBody(body)
    \/ \E priority \in PriorityMin..PriorityMax : SetEditingPriority(priority)
    \/ \E label \in LabelInputs : AddLabel(label)
    \/ \E label \in Range(editingIssue.labels) : RemoveLabel(label)
    \/ CloseEditModal
    \/ SaveEditedIssue

\* Session start, generation and the edit dialog.
NextEdit ==
    \/ CheckAuthStatusOk
    \/ CheckAuthStatusFails
    \/ LoadRepositoriesOk
    \/ LoadRepositoriesFails
    \/ \E repo \in Range(repositories) \cup {NoRepo} : SelectRepository(repo)
    \/ \E text \in MarkdownTexts : SetMarkdownContent(text)
    \/ GenerateIssues
    \/ \E issues \in ServerIssueLists : GenerateIssuesOk(issues)
    \/ GenerateIssuesFails
    \/ EditNext

\* The client generating and editing issues.
SpecEdit == Init /\ [][NextEdit]_vars

\* The bound of the model on the commits where the edit dialog is part of the
\* specification.
BatchBound == Len(Live(commits)) + timers < MaxBatches

\* A click on the create button, with the edit dialog in the specification.
CreateSelectedIssuesClick ==
    /\ CreateEnabled
    /\ BatchBound
    /\ CreateSelectedIssuesHandler

\* Generation, the edit dialog without the changes of its fields, selection
\* and commit; the handlers of the main view have no guard on the dialog,
\* which is an overlay that does not take the keyboard from the page.
NextDialog ==
    \/ CheckAuthStatusOk
    \/ LoadRepositoriesOk
    \/ \E repo \in Range(repositories) \cup {NoRepo} : SelectRepository(repo)
    \/ SetMarkdownContent("# req")
    \/ GenerateIssues
    \/ ResolveGenerate
    \/ \E index \in 0..(MaxIssues - 1) : OpenEditModal(index)
    \/ CloseEditModal
    \/ SaveEditedIssue
    \/ \E index \in 0..(MaxIssues - 1) : ToggleIssueSelection(index)
    \/ SelectAllIssues
    \/ CreateSelectedIssuesClick
    \/ ResolveCreate
    \/ TimerFires

\* The client generating, editing, selecting and committing issues.
SpecDialog == Init /\ [][NextDialog]_vars

\* --------------------------------------------------------- requirement text
\* What the handlers of the requirement text leave alone.
TextFrame ==
    /\ UNCHANGED <<user, loading, error, repositories, selectedRepo,
                   selectedIssues, loadingRepos, creatingIssues,
                   generatedIssues, generatingIssues>>
    /\ UNCHANGED <<callVars, synthVars, editVars, sessionVars, sentText>>

\* validateFile: the extension, then the size.
HasValidExtension(file) == ToLowerCase(file.name[2]) \in allowedExtensions
ValidateFile(file) == HasValidExtension(file) /\ ~(file.size > maxSize)

\* handleFileUpload from the file input or a drop, up to its await: the file
\* is validated and, when valid, readFile starts to read it.
HandleFileUpload(file) ==
    /\ MainView
    /\ Len(fileReads) < MaxReads
    /\ uploadError' = IF ~HasValidExtension(file) THEN ErrExtension
                      ELSE IF file.size > maxSize THEN ErrSize
                      ELSE NoUploadError
    /\ fileReads' = IF ValidateFile(file) THEN Append(fileReads, file)
                    ELSE fileReads
    /\ UNCHANGED <<markdownContent, sampleMarkdown>>
    /\ TextFrame

\* The i-th read of fileReads is taken out.
Without1(reads, i) == [j \in 1..(Len(reads) - 1) |-> IF j < i THEN reads[j] ELSE reads[j + 1]]

\* readFile resolves with the content of the file.
ReadFileOk(i) ==
    /\ markdownContent' = fileReads[i].content
    /\ uploadError' = NoUploadError
    /\ fileReads' = Without1(fileReads, i)
    /\ UNCHANGED sampleMarkdown
    /\ TextFrame

\* readFile rejects: the catch block.
ReadFileFails(i) ==
    /\ uploadError' = ErrRead
    /\ fileReads' = Without1(fileReads, i)
    /\ UNCHANGED <<markdownContent, sampleMarkdown>>
    /\ TextFrame

\* loadSampleMarkdown of the mount effect: the response is ok.  A response
\* that is not ok changes nothing.
LoadSampleMarkdownOk ==
    /\ sampleMarkdown = ""
    /\ sampleMarkdown' = SampleText
    /\ UNCHANGED <<markdownContent, uploadError, fileReads>>
    /\ TextFrame

\* loadSampleContent from the sample button.
LoadSampleContent ==
    /\ MainView
    /\ markdownContent' = sampleMarkdown
    /\ uploadError' = NoUploadError
    /\ UNCHANGED <<sampleMarkdown, fileReads>>
    /\ TextFrame

\* clearContent from the clear button.
ClearContent ==
    /\ MainView
    /\ markdownContent' = ""
    /\ uploadError' = NoUploadError
    /\ UNCHANGED <<sampleMarkdown, fileReads>>
    /\ TextFrame

\* Session start, the requirement text however it is entered, and generation.
NextText ==
    \/ CheckAuthStatusOk
    \/ CheckAuthStatusFails
    \/ LoadRepositoriesOk
    \/ LoadRepositoriesFails
    \/ \E repo \in Range(repositories) \cup {NoRepo} : SelectRepository(repo)
    \/ \E text \in TypedTexts : SetMarkdownContent(text)
    \/ \E file \in Files : HandleFileUpload(file)
    \/ \E i \in DOMAIN fileReads : ReadFileOk(i) \/ ReadFileFails(i)
    \/ LoadSampleMarkdownOk
    \/ LoadSampleContent
    \/ ClearContent
    \/ GenerateIssues
    \/ \E issues \in ServerIssueLists : GenerateIssuesOk(issues)
    \/ GenerateIssuesFails

\* The client entering requirement texts and generating issues from them.
SpecText == Init /\ [][NextText]_vars

\* ---------------------------------------------------------- session manager
\* issue(identity, delegatedToken) at minute at: the claims (identity, the
\* token enciphered, issued-at, expiry) and their signature.
Issue(identity, token, at) ==
    LET claims == [sub |-> identity, token |-> Encrypt(token, SecretKey),
                   iat |-> at, exp |-> at + ExpireMinutes]
    IN  [claims |-> claims, signature |-> Sign(claims, SecretKey)]

\* A verification that hands back the token as the credential carries it.
VerifyKeepsEnciphered(credential, at) ==
    IF credential = NoCredential
          \/ credential.signature # Sign(credential.claims, SecretKey)
       THEN [error |-> "Invalid"]
    ELSE IF at > credential.claims.exp THEN [error |-> "Expired"]
    ELSE [identity |-> credential.claims.sub, token |-> credential.claims.token]

\* A verification that does not look at the expiry.
VerifyIgnoresExpiry(credential, at) ==
    IF credential = NoCredential
          \/ credential.signature # Sign(credential.claims, SecretKey)
       THEN [error |-> "Invalid"]
    ELSE [identity |-> credential.claims.sub,
          token |-> Decrypt(credential.claims.token, SecretKey)]

\* verify(credential) at minute at: Invalid for a missing credential or a bad
\* signature, Expired past the window, else the identity and the token.
Verify(credential, at) ==
    IF credential = NoCredential
          \/ credential.signature # Sign(credential.claims, SecretKey)
       THEN [error |-> "Invalid"]
    ELSE IF at > credential.claims.exp THEN [error |-> "Expired"]
    ELSE [identity |-> credential.claims.sub,
          token |-> Decrypt(credential.claims.token, SecretKey)]

\* What a caller sees of a verification: both failures read the same.
Surface(result) ==
    IF "error" \in DOMAIN result
       THEN [status |-> "AuthenticationRequired"]
       ELSE [status |-> "ok", identity |-> result.identity]

\* The credential with its expiry moved a window on, under the old signature
\* and under a signature made with another key.
Tampered(credential) ==
    [credential EXCEPT !.claims.exp = @ + ExpireMinutes]
Resigned(credential) ==
    [claims |-> Tampered(credential).claims,
     signature |-> Sign(Tampered(credential).claims, OtherKey)]

\* What a request can present as its credential.
Presentable ==
    IF cookie = NoCredential THEN {NoCredential}
    ELSE {NoCredential, cookie, Tampered(cookie), Resigned(cookie)}

\* What the steps of the session and of the authorization leave alone.
SessionFrame == UNCHANGED <<callVars, synthVars, editVars, textVars>>

\* A request of the client is served: its credential is verified.
SessionVerify(credential) ==
    /\ verified' = [credential |-> credential,
                    result |-> Verify(credential, now),
                    response |-> Surface(Verify(credential, now))]
    /\ UNCHANGED <<now, authFlow, cookie, clientVars>>
    /\ SessionFrame

\* A minute passes; the request that was served is over.
Tick ==
    /\ now < (IF cookie = NoCredential THEN MaxIssueAt
              ELSE cookie.claims.exp + MaxLate)
    /\ now' = now + 1
    /\ verified' = NoVerification
    /\ UNCHANGED <<authFlow, cookie, clientVars>>
    /\ SessionFrame

\* ------------------------------------------------------ authorization flow
\* The logged-out view is rendered, with its login button.
LoggedOutView == ~loading /\ user = NoUser

\* handleGithubLogin with a client id: the state value is drawn, put into the
\* address of the provider's page, and the browser leaves for that page.  The
\* handler keeps no copy of the value and sends none to the backend: issued
\* records what was drawn.  The handler changes no state before its await, so
\* the click and the answer of /api/config are one step.
HandleGithubLogin(state) ==
    /\ LoggedOutView
    /\ authFlow.stage \in {"idle", "failed"}
    /\ authFlow' = [NoFlow EXCEPT !.stage = "provider", !.issued = state]
    /\ UNCHANGED <<now, cookie, verified, clientVars>>
    /\ SessionFrame

\* handleGithubLogin without a client id, or /api/config fails.
HandleGithubLoginFails ==
    /\ LoggedOutView
    /\ authFlow.stage \in {"idle", "failed"}
    /\ error' \in {ErrNoClientId, ErrConfig}
    /\ UNCHANGED <<user, loading, repositories, selectedRepo, selectedIssues,
                   loadingRepos, creatingIssues, generatedIssues,
                   markdownContent, generatingIssues>>
    /\ UNCHANGED sessionVars
    /\ SessionFrame

\* The browser arrives at /api/auth/callback with a code and a state value:
\* the one the provider echoes, or any other a crafted address carries.  The
\* backend holds no value of begin to compare the state with; it sends the
\* code to the provider's token endpoint.
AuthCallback(code, state) ==
    /\ authFlow.stage = "provider"
    /\ authFlow' = [authFlow EXCEPT !.stage = "exchange", !.state = state]
    /\ UNCHANGED <<now, cookie, verified, clientVars>>
    /\ SessionFrame

\* The token endpoint answers with a delegated access token.
ExchangeOk(token) ==
    /\ authFlow.stage = "exchange"
    /\ authFlow' = [authFlow EXCEPT !.stage = "identity", !.token = token]
    /\ UNCHANGED <<now, cookie, verified, clientVars>>
    /\ SessionFrame

\* The token endpoint rejects the code, or cannot be reached.
ExchangeFails ==
    /\ authFlow.stage = "exchange"
    /\ authFlow' = [authFlow EXCEPT !.stage = "failed",
                                    !.outcome = "UpstreamAuthError"]
    /\ UNCHANGED <<now, cookie, verified, clientVars>>
    /\ SessionFrame

\* An identity fetch that fails and leaves a credential of the token alone.
IdentityFailsHalfCredential ==
    /\ authFlow.stage = "identity"
    /\ authFlow' = [authFlow EXCEPT !.stage = "failed",
                                    !.outcome = "UpstreamAuthError"]
    /\ cookie' = Issue("none", authFlow.token, now)
    /\ UNCHANGED <<now, verified, clientVars>>
    /\ SessionFrame

\* The identity endpoint rejects the token, or cannot be reached.
IdentityFails ==
    /\ authFlow.stage = "identity"
    /\ authFlow' = [authFlow EXCEPT !.stage = "failed",
                                    !.outcome = "UpstreamAuthError"]
    /\ UNCHANGED <<now, cookie, verified, clientVars>>
    /\ SessionFrame

\* The identity endpoint answers: the credential is issued and set as cookie.
IdentityOk(identity) ==
    /\ authFlow.stage = "identity"
    /\ authFlow' = [authFlow EXCEPT !.stage = "done", !.identity = identity,
                                    !.outcome = "credential"]
    /\ cookie' = Issue(identity, authFlow.token, now)
    /\ UNCHANGED <<now, verified, clientVars>>
    /\ SessionFrame

NextAuth ==
    \/ CheckAuthStatusFails
    \/ \E state \in StateValues : HandleGithubLogin(state)
    \/ HandleGithubLoginFails
    \/ \E code \in AuthorizationCodes, state \in StateValues :
          AuthCallback(code, state)
    \/ \E token \in DelegatedTokens : ExchangeOk(token)
    \/ ExchangeFails
    \/ \E identity \in Identities : IdentityOk(identity)
    \/ IdentityFails
    \/ \E credential \in Presentable : SessionVerify(credential)
    \/ Tick

\* The login of a user and the session it gives.
SpecAuth == Init /\ [][NextAuth]_vars

\* ------------------------------------------------------------- synthesizer
\* The requirement-to-issue synthesizer of the backend: one request to the
\* generative model, then the validation of each candidate of its response.

\* A candidate has a non-empty title.
HasTitle(c) == "title" \in DOMAIN c /\ IsString(c.title) /\ c.title.str # ""

\* The labels of a candidate from entries on, given those kept so far: a
\* string not yet kept is kept, anything else is discarded.
RECURSIVE NormalizeLabelsFrom(_, _)
NormalizeLabelsFrom(entries, kept) ==
    IF entries = <<>> THEN kept
    ELSE LET e == Head(entries)
         IN  NormalizeLabelsFrom(Tail(entries),
                 IF IsString(e) /\ e.str \notin Range(kept)
                    THEN Append(kept, e.str) ELSE kept)

\* Labels that keep every string entry, repeated ones too.
NormalizeLabelsKeepsAll(c) ==
    LET strings == SelectSeq(IF "labels" \in DOMAIN c THEN c.labels ELSE <<>>,
                             IsString)
    IN  [i \in DOMAIN strings |-> strings[i].str]

\* The labels of a record: none for a candidate without labels.
NormalizeLabels(c) ==
    NormalizeLabelsFrom(IF "labels" \in DOMAIN c THEN c.labels ELSE <<>>, <<>>)

\* The candidate carries a priority the record keeps: an integer in range.
HasPriority(c) ==
    /\ "priority" \in DOMAIN c
    /\ IsNumber(c.priority)
    /\ c.priority.num \in PriorityMin..PriorityMax

\* The body of a record: the candidate's, or the empty string.
NormalizeBody(c) == IF "body" \in DOMAIN c THEN c.body.str ELSE ""

\* A record whose priority is the bound nearest to an out-of-range number.
NormalizeCandidateClamps(c) ==
    IF "priority" \in DOMAIN c /\ IsNumber(c.priority)
       THEN [title |-> c.title.str, body |-> NormalizeBody(c),
             labels |-> NormalizeLabels(c),
             priority |-> IF c.priority.num < PriorityMin THEN PriorityMin
                          ELSE IF c.priority.num > PriorityMax THEN PriorityMax
                          ELSE c.priority.num]
       ELSE [title |-> c.title.str, body |-> NormalizeBody(c),
             labels |-> NormalizeLabels(c)]

\* The record of a candidate that has a title; a record without a priority
\* lacks the field.
NormalizeCandidate(c) ==
    IF HasPriority(c)
       THEN [title |-> c.title.str, body |-> NormalizeBody(c),
             labels |-> NormalizeLabels(c), priority |-> c.priority.num]
       ELSE [title |-> c.title.str, body |-> NormalizeBody(c),
             labels |-> NormalizeLabels(c)]

\* A validation that gives up on the batch at a candidate without a title.
ValidateAllOrNothing(candidates) ==
    IF \A i \in DOMAIN candidates : HasTitle(candidates[i])
       THEN [i \in DOMAIN candidates |-> NormalizeCandidate(candidates[i])]
       ELSE <<>>

\* The validation of the candidates, each on its own: one without a title is
\* dropped, the others become records, in their order.
ValidateCandidates(candidates) ==
    LET kept == SelectSeq(candidates, HasTitle)
    IN  [i \in DOMAIN kept |-> NormalizeCandidate(kept[i])]

\* What the synthesizer returns for a response of the model.
Synthesize(response) ==
    IF response = Unparseable
       THEN [issues |-> <<>>, error |-> "SynthesisError"]
       ELSE [issues |-> ValidateCandidates(response.issues), error |-> "none"]

\* What the synthesizer's steps leave alone.
SynthFrame == UNCHANGED <<clientVars, callVars, editVars, sessionVars, textVars>>

\* A generate request arrives: the one request to the generative model.
SynthRequest ==
    /\ synthCall = "idle"
    /\ synthCall' = "model"
    /\ UNCHANGED <<modelResponse, synthesis>>
    /\ SynthFrame

\* The model answers: parse, validate, return.
SynthModelAnswers ==
    /\ synthCall = "model"
    /\ synthCall' = "done"
    /\ \E response \in ModelResponses :
          /\ modelResponse' = response
          /\ synthesis' = Synthesize(response)
    /\ SynthFrame

\* The call to the model fails: an empty result and the error.
SynthModelFails ==
    /\ synthCall = "model"
    /\ synthCall' = "done"
    /\ synthesis' = [issues |-> <<>>, error |-> "SynthesisError"]
    /\ UNCHANGED modelResponse
    /\ SynthFrame

NextSynth ==
    \/ SynthRequest
    \/ SynthModelAnswers
    \/ SynthModelFails

\* The synthesizer serving one generate request.
SpecSynth == Init /\ [][NextSynth]_vars

\* ------------------------------------------------------------------ claims
\* Number of entries of seq equal to x.
CountIn(seq, x) == Cardinality({i \in DOMAIN seq : seq[i] = x})

\* The positions of the calls of commit c that ended in state st.
Ended(c, st) == {i \in DOMAIN c.calls : c.calls[i].st = st}

\* The entries of the calls of c that ended in st, in input order: the
\* reference of a succeeded call, the title of a failed one.
RECURSIVE InInputOrder(_, _, _)
InInputOrder(c, st, i) ==
    IF i > Len(c.calls) THEN <<>>
    ELSE (IF c.calls[i].st = st
             THEN <<IF st = "ok" THEN HtmlUrl(c.calls[i].req)
                    ELSE c.calls[i].issue.title>>
             ELSE <<>>) \o InInputOrder(c, st, i + 1)

\* The step dispatches a commit: the in-progress flag goes up.
DispatchStep == ~creatingIssues /\ creatingIssues'

\* C1: when a commit of N records completes, its aggregate holds one entry per
\* record: succeeded + failed = N, the reference of every succeeded record is
\* among the succeeded entries and the title of every failed record among the
\* failed ones, each as often as it occurs.
C1_AggregatePerRecord ==
    \A k \in DOMAIN commits :
        LET c == commits[k] IN
        c.joined = "resolved" =>
            /\ Len(c.successfulIssues) + Len(c.failedIssues) = Len(c.calls)
            /\ Len(c.successfulIssues) = Cardinality(Ended(c, "ok"))
            /\ Len(c.failedIssues) = Cardinality(Ended(c, "failed"))
            /\ \A i \in Ended(c, "ok") :
                  CountIn(c.successfulIssues, HtmlUrl(c.calls[i].req)) =
                  Cardinality({j \in Ended(c, "ok") : c.calls[j].req = c.calls[i].req})
            /\ \A i \in Ended(c, "failed") :
                  CountIn(c.failedIssues, c.calls[i].issue.title) =
                  Cardinality({j \in Ended(c, "failed") :
                                 c.calls[j].issue.title = c.calls[i].issue.title})

\* A completed commit of two records, the first succeeded, the second failed.
C1_Witness ==
    \E k \in DOMAIN commits :
        /\ commits[k].joined = "resolved"
        /\ Len(commits[k].calls) = 2
        /\ commits[k].calls[1].st = "ok"
        /\ commits[k].calls[2].st = "failed"
        /\ error = MsgCreated(1, 1)

\* C2: a creation call that fails changes its own item only: it is recorded
\* as failed, every other call of the commit stays as it is (dispatched, in
\* flight or with its outcome), and the commit does not raise: its join is
\* not rejected, no exception is left uncaught, and when the failure is the
\* last resolution the commit reports its result.
C2_FailureIsolated ==
    [][\A k \in DOMAIN commits : \A i \in DOMAIN commits[k].calls :
          (/\ ~DispatchStep
           /\ commits[k].calls[i].st = "fetch"
           /\ commits'[k].calls[i].st \notin {"fetch", "ok"})
          => /\ commits'[k].calls[i].st = "failed"
             /\ \A j \in DOMAIN commits[k].calls \ {i} :
                   commits'[k].calls[j] = commits[k].calls[j]
             /\ commits'[k].joined # "rejected"
             /\ unhandled' = FALSE
             /\ error' # ErrCreate
             /\ (commits'[k].joined = "resolved" =>
                    error' = CommitMessage(commits'[k]))]_vars

\* The first call of a commit has failed and the second is still in flight;
\* the commit goes on.
C2_Witness ==
    \E k \in DOMAIN commits :
        /\ Len(commits[k].calls) = 2
        /\ commits[k].calls[1].st = "failed"
        /\ commits[k].calls[2].st = "fetch"
        /\ commits[k].joined = "pending"
        /\ creatingIssues

\* C3: a commit with a creation call still in flight has not completed: its
\* join is pending and the in-progress flag is up.
C3_JoinAll ==
    \A k \in DOMAIN commits :
        (\E i \in DOMAIN commits[k].calls : InFlight(commits[k].calls[i]))
        => /\ commits[k].joined = "pending"
           /\ creatingIssues

\* The second call of a commit has succeeded first; the commit waits for the
\* first call.
C3_Witness ==
    \E k \in DOMAIN commits :
        /\ Len(commits[k].calls) = 2
        /\ commits[k].calls[1].st = "fetch"
        /\ commits[k].calls[2].st = "ok"
        /\ commits[k].joined = "pending"
        /\ creatingIssues

\* C4: the step that dispatches a commit sends the creation request of every
\* selected record, in the order of the selection: as many calls are in
\* flight as records are selected.
C4_AllDispatchedAtOnce ==
    [][DispatchStep =>
         LET c == commits'[Len(commits')] IN
         /\ Len(c.calls) = Len(selectedIssues)
         /\ \A i \in DOMAIN c.calls :
               /\ InFlight(c.calls[i])
               /\ c.calls[i].issue = At(generatedIssues, selectedIssues[i])]_vars

\* As many calls are in flight at once as the longest issue list has records.
C4_Witness ==
    \E k \in DOMAIN commits :
        /\ Len(commits[k].calls) = MaxIssues
        /\ \A i \in DOMAIN commits[k].calls : InFlight(commits[k].calls[i])

\* C5 as claimed: after a commit completes, the succeeded references and the
\* failed titles are in the input order of the selected records.
C5_InputOrder ==
    \A k \in DOMAIN commits :
        commits[k].joined = "resolved" =>
            /\ commits[k].successfulIssues = InInputOrder(commits[k], "ok", 1)
            /\ commits[k].failedIssues = InInputOrder(commits[k], "failed", 1)

\* C5 as amended: the succeeded references and the failed titles are in the
\* order in which the calls resolved: the resolution of a call appends its
\* entry after the entries already there, and nothing else changes the two
\* sequences.
C5_ResolutionOrder ==
    [][\A k \in DOMAIN commits :
          ~DispatchStep =>
          LET c == commits[k]
              d == commits'[k]
              ok == {i \in DOMAIN c.calls : InFlight(c.calls[i]) /\ d.calls[i].st = "ok"}
              failed == {i \in DOMAIN c.calls :
                           InFlight(c.calls[i]) /\ d.calls[i].st = "failed"}
          IN  /\ Cardinality(ok \cup failed) <= 1
              /\ d.successfulIssues =
                    IF ok = {} THEN c.successfulIssues
                    ELSE Append(c.successfulIssues,
                                HtmlUrl(c.calls[CHOOSE i \in ok : TRUE].req))
              /\ d.failedIssues =
                    IF failed = {} THEN c.failedIssues
                    ELSE Append(c.failedIssues,
                                c.calls[CHOOSE i \in failed : TRUE].issue.title)]_vars

\* A completed commit whose second record succeeded before its first: the
\* succeeded references are not in input order.
C5_Witness ==
    \E k \in DOMAIN commits :
        /\ commits[k].joined = "resolved"
        /\ Len(commits[k].successfulIssues) = 2
        /\ commits[k].successfulIssues[1] = HtmlUrl(commits[k].calls[2].req)
        /\ commits[k].successfulIssues[2] = HtmlUrl(commits[k].calls[1].req)

\* C6: a commit called with an empty selection is a no-op: the handler
\* returns at its guard, dispatches no creation call, sets no message, raises
\* nothing; no commit without a creation call is ever started.
C6_EmptySelectionNoOp ==
    [][Len(selectedIssues) = 0 =>
         /\ \A k \in DOMAIN commits' : Len(commits'[k].calls) > 0
         /\ creatingIssues' => creatingIssues
         /\ lastCommit' # lastCommit =>
               /\ lastCommit' = "returned"
               /\ UNCHANGED <<clientVars, commits, timers, unhandled>>]_vars

\* createSelectedIssues was called with an empty selection, issues and a
\* repository being there: nothing is dispatched and nothing reported.
C6_Witness ==
    /\ lastCommit = "returned"
    /\ Len(selectedIssues) = 0
    /\ Len(generatedIssues) > 0
    /\ selectedRepo # NoRepo
    /\ commits = <<>>
    /\ error = NoError
    /\ ~creatingIssues

\* C7: every call of a commit has sent exactly one creation request, and no
\* step other than the dispatch of a new commit sends a request for a record
\* or puts a settled call back in flight.
C7_OneCallPerRecord ==
    [][/\ \A k \in DOMAIN commits' : \A i \in DOMAIN commits'[k].calls :
             commits'[k].calls[i].sent = 1
       /\ ~DispatchStep =>
             \A k \in DOMAIN commits : \A i \in DOMAIN commits[k].calls :
                /\ commits'[k].calls[i].sent = commits[k].calls[i].sent
                /\ Settled(commits[k].calls[i]) =>
                      commits'[k].calls[i] = commits[k].calls[i]]_vars

\* A commit completed with every call failed, each after one request; the
\* selection is kept, so that the user can commit again.
C7_Witness ==
    \E k \in DOMAIN commits :
        /\ commits[k].joined = "resolved"
        /\ \A i \in DOMAIN commits[k].calls :
              commits[k].calls[i].st = "failed" /\ commits[k].calls[i].sent = 1
        /\ error = ErrAllFailed
        /\ ~creatingIssues
        /\ Len(selectedIssues) > 0

\* The step leaves the context of the commits: the user changes (logout), the
\* repository changes, or a generation starts.
AbortStep ==
    \/ user' # user
    \/ selectedRepo' # selectedRepo
    \/ ~generatingIssues /\ generatingIssues'

\* C8: leaving the context of a commit changes none of its calls; a call in
\* flight stays in flight until its own resolution, and a succeeded call
\* stays succeeded.
C8_NoCancelNoRollback ==
    [][/\ AbortStep => commits' = commits
       /\ ~DispatchStep =>
             \A k \in DOMAIN commits : \A i \in DOMAIN commits[k].calls :
                /\ InFlight(commits[k].calls[i]) =>
                      commits'[k].calls[i].st \in {"fetch", "ok", "failed"}
                /\ commits[k].calls[i].st = "ok" =>
                      commits'[k].calls[i] = commits[k].calls[i]]_vars

\* The user is logged out and the commit has completed after that with both
\* issues created: logout clears the message, the join has set it since.
C8_Witness ==
    /\ user = NoUser
    /\ error = MsgCreated(2, 0)
    /\ \E k \in DOMAIN commits :
          /\ commits[k].joined = "resolved"
          /\ Len(commits[k].successfulIssues) = 2

\* C9: a generate invocation has sent one request; a request is in flight
\* exactly while the invocation waits for the response, so that no response,
\* failed or not, is followed by another request.
C9_OneGenerationRequest ==
    /\ lastGeneration # "none" => genRequests = 1
    /\ genCalls = IF lastGeneration = "pending" THEN 1 ELSE 0

\* A generation has failed after its one request and nothing is in flight.
C9_Witness ==
    /\ lastGeneration = "failed"
    /\ genRequests = 1
    /\ genCalls = 0

Synthesized == synthCall = "done" /\ modelResponse \notin {NoResponse, Unparseable}

\* Candidate c carries a title that is not the empty string.
Titled(c) == "title" \in DOMAIN c /\ c.title # Str("")

\* f lists the positions of the titled candidates of cs in increasing order.
ListsTitled(f, cs) ==
    /\ \A j \in DOMAIN f : Titled(cs[f[j]])
    /\ \A i \in DOMAIN cs : Titled(cs[i]) => \E j \in DOMAIN f : f[j] = i
    /\ \A j, k \in DOMAIN f : j < k => f[j] < f[k]

\* C11: for a model response of N candidates of which K have a non-empty
\* title, the synthesizer returns K records, the records of exactly those K
\* candidates in their order in the response, and no error: a candidate
\* without a title is dropped and the batch goes on.
C11_TitledCandidatesInOrder ==
    Synthesized =>
        LET cs == modelResponse.issues
            out == synthesis.issues
            K == Cardinality({i \in DOMAIN cs : Titled(cs[i])})
        IN  /\ synthesis.error = "none"
            /\ Len(out) = K
            /\ \E f \in [1..K -> DOMAIN cs] :
                  /\ ListsTitled(f, cs)
                  /\ \A j \in 1..K :
                        /\ out[j].title = cs[f[j]].title.str
                        /\ "body" \in DOMAIN cs[f[j]] => out[j].body = cs[f[j]].body.str

\* A response of two candidates, the first without a title, gave one record.
C11_Witness ==
    /\ Synthesized
    /\ Len(modelResponse.issues) = 2
    /\ ~Titled(modelResponse.issues[1])
    /\ Titled(modelResponse.issues[2])
    /\ Len(synthesis.issues) = 1

\* The positions of the titled candidates of cs, in increasing order.
TitledPositions(cs) ==
    CHOOSE f \in [1..Cardinality({i \in DOMAIN cs : Titled(cs[i])}) -> DOMAIN cs] :
        ListsTitled(f, cs)

\* The candidate that record j of the result was made from.
CandidateOf(j) == modelResponse.issues[TitledPositions(modelResponse.issues)[j]]

\* The entries of a candidate's labels: none when it has no labels.
LabelsOf(c) == IF "labels" \in DOMAIN c THEN c.labels ELSE <<>>

\* The first position of entry e in the list entries.
FirstAt(entries, e) ==
    CHOOSE i \in DOMAIN entries :
        entries[i] = e /\ \A k \in DOMAIN entries : entries[k] = e => i <= k

\* C12: the labels of a record are the string entries of its candidate's
\* labels, each once, in the order of their first occurrences: later
\* duplicates are removed and entries that are not strings are discarded;
\* bug, bug, feature becomes bug, feature.
C12_LabelsFirstOccurrences ==
    Synthesized =>
        \A j \in DOMAIN synthesis.issues :
            LET entries == LabelsOf(CandidateOf(j))
                labels == synthesis.issues[j].labels
            IN  /\ \A i \in DOMAIN entries :
                      IsString(entries[i]) =>
                          Cardinality({a \in DOMAIN labels :
                                          labels[a] = entries[i].str}) = 1
                /\ \A a \in DOMAIN labels :
                      \E i \in DOMAIN entries : entries[i] = Str(labels[a])
                /\ \A a, b \in DOMAIN labels :
                      a < b => FirstAt(entries, Str(labels[a]))
                                  < FirstAt(entries, Str(labels[b]))
                /\ entries = <<Str("bug"), Str("bug"), Str("feature")>>
                      => labels = <<"bug", "feature">>

\* Labels with a repeated string and a number gave the two strings, in order.
C12_Witness ==
    /\ Synthesized
    /\ \E j \in DOMAIN synthesis.issues :
          /\ LabelsOf(CandidateOf(j)) = <<Str("feature"), Num(7), Str("feature")>>
          /\ synthesis.issues[j].labels = <<"feature">>
    /\ \E j \in DOMAIN synthesis.issues :
          /\ LabelsOf(CandidateOf(j)) = <<Str("bug"), Str("bug"), Str("feature")>>
          /\ synthesis.issues[j].labels = <<"bug", "feature">>

\* C13: the priority of a record is its candidate's priority when that is an
\* integer of the allowed range, unchanged; for a priority out of range, or
\* none, the record has no priority: the value is omitted, never moved to the
\* nearest bound.
C13_PriorityOmittedNotClamped ==
    Synthesized =>
        \A j \in DOMAIN synthesis.issues :
            LET c == CandidateOf(j)
                record == synthesis.issues[j]
            IN  IF /\ "priority" \in DOMAIN c
                   /\ \E n \in PriorityMin..PriorityMax : c.priority = Num(n)
                   THEN "priority" \in DOMAIN record
                        /\ Num(record.priority) = c.priority
                   ELSE "priority" \notin DOMAIN record

\* Priority 7 gave a record without a priority, priority 3 one with 3.
C13_Witness ==
    /\ Synthesized
    /\ \E j \in DOMAIN synthesis.issues :
          /\ "priority" \in DOMAIN CandidateOf(j)
          /\ CandidateOf(j).priority = Num(7)
          /\ "priority" \notin DOMAIN synthesis.issues[j]
    /\ \E j \in DOMAIN synthesis.issues :
          /\ "priority" \in DOMAIN CandidateOf(j)
          /\ CandidateOf(j).priority = Num(3)
          /\ "priority" \in DOMAIN synthesis.issues[j]
          /\ synthesis.issues[j].priority = 3

\* The labels hold no label twice.
DuplicateFree(labels) ==
    \A a, b \in DOMAIN labels : labels[a] = labels[b] => a = b

\* An issue record as the data model has it: a title that is not empty,
\* labels without duplicates, no priority or one of the allowed range.
NormalizedRecord(issue) ==
    /\ issue.title # EmptyText
    /\ DuplicateFree(issue.labels)
    /\ "priority" \in DOMAIN issue => issue.priority \in PriorityMin..PriorityMax

\* C14: whatever was generated, edited, saved or cancelled, every record of
\* the issue set, from which a commit takes the records it sends as they are,
\* has a non-empty title, duplicate-free labels and no priority or one in 1..5.
C14_IssueSetNormalized ==
    \A i \in DOMAIN generatedIssues :
        ~IsUndefined(generatedIssues[i]) => NormalizedRecord(generatedIssues[i])

\* The request served now presented the credential the flow issued.
VerifiedIssued ==
    /\ verified # NoVerification
    /\ cookie # NoCredential
    /\ verified.credential = cookie

C16_ExpiredNeverVerifies ==
    /\ cookie # NoCredential =>
          cookie.claims.exp = cookie.claims.iat + ExpireMinutes
    /\ (verified # NoVerification /\ verified.credential # NoCredential
          /\ now > verified.credential.claims.exp) =>
          /\ verified.response = [status |-> "AuthenticationRequired"]
          /\ verified.credential = cookie => verified.result = [error |-> "Expired"]

\* The issued credential was presented two minutes after its expiry.
C16_Witness ==
    /\ VerifiedIssued
    /\ now = cookie.claims.exp + 2
    /\ verified.result = [error |-> "Expired"]
    /\ verified.response = [status |-> "AuthenticationRequired"]

\* C18: a credential exists only once the token exchange and the identity
\* fetch have both succeeded, and it carries the token and the identity they
\* gave; a flow in which either failed has ended in UpstreamAuthError and
\* there is no credential, not even one of the token alone.
C18_CredentialOnlyWhenBothSucceed ==
    /\ cookie # NoCredential =>
          /\ authFlow.stage = "done"
          /\ authFlow.outcome = "credential"
          /\ authFlow.token \in DelegatedTokens
          /\ authFlow.identity \in Identities
          /\ cookie.claims.sub = authFlow.identity
          /\ Decrypt(cookie.claims.token, SecretKey) = authFlow.token
    /\ authFlow.stage = "done" => cookie # NoCredential
    /\ authFlow.stage = "failed" =>
          authFlow.outcome = "UpstreamAuthError" /\ cookie = NoCredential
    /\ authFlow.outcome = "UpstreamAuthError" => authFlow.stage = "failed"

\* The token exchange succeeded, the identity fetch failed: no credential.
C18_Witness ==
    /\ authFlow.stage = "failed"
    /\ authFlow.token \in DelegatedTokens
    /\ authFlow.identity = "none"
    /\ authFlow.outcome = "UpstreamAuthError"
    /\ cookie = NoCredential

\* C19: a credential is issued only by a completion whose state value is the
\* one begin issued for the flow.
C19_StateVerified ==
    cookie # NoCredential => authFlow.state = authFlow.issued

\* The step sends a request of a per-user operation: a repository listing, a
\* generation or the creation calls of a commit.
PerUserRequestStep ==
    \/ repoCalls' > repoCalls
    \/ genCalls' > genCalls
    \/ DispatchStep

\* C17: the client comes to hold a user identity only in the step in which
\* its whoami call returns success, and holds one only after that; a whoami
\* call that fails leaves it without one; and a step that sends a repository
\* listing, a generation or a commit leaves the client holding an identity,
\* which generation and commit hold before the step as well.
C17_IdentityGatesOperations ==
    [][/\ (user = NoUser /\ user' # NoUser) =>
              (authCall = "fetch" /\ authCall' = "ok")
       /\ user' # NoUser => authCall' = "ok"
       /\ (authCall = "fetch" /\ authCall' = "failed") =>
              (user = NoUser /\ user' = NoUser)
       /\ PerUserRequestStep => user' # NoUser
       /\ (genCalls' > genCalls \/ DispatchStep) => user # NoUser]_vars

\* With whoami answered and the identity held, a generation and the creation
\* calls of a commit are in flight.
C17_Witness ==
    /\ authCall = "ok"
    /\ user = ServerUser
    /\ creatingIssues
    /\ genCalls > 0

\* C20: the requirement text of every generation request is within the 5 MB
\* bound of the boundary layer, whether it was read from an uploaded file or
\* typed or pasted into the text area.
C20_SentTextBounded ==
    sentText # NoText => Size(sentText) <= maxSize


\* The client holds no user identity, no repository list, no selected
\* repository, no selection and no generated issues.
SessionDiscarded ==
    /\ user = NoUser
    /\ repositories = <<>>
    /\ selectedRepo = NoRepo
    /\ selectedIssues = <<>>
    /\ generatedIssues = <<>>

\* C21: a step that takes a logout call out of flight either is the catch
\* block of a rejected fetch, which changes nothing else, or is the
\* continuation after a response, and then it leaves the client with no user
\* identity, no repository list, no selected repository, no selection and no
\* generated issues, whatever the client held before.
C21_LogoutDiscardsSession ==
    [][logoutCalls' < logoutCalls =>
          (HandleLogoutFails \/ SessionDiscarded')]_vars

\* The logout response has arrived at a client that held a repository, issues
\* and a selection when it asked: all of it is gone, while the generation that
\* was in flight at the logout is still in flight.
C21_Witness ==
    /\ SessionDiscarded
    /\ authCall = "ok"
    /\ logoutCalls = 0
    /\ genCalls > 0
    /\ lastGeneration = "pending"

\* C22: when the page is opened with the error parameter of a failed
\* authorization, the authentication error message is still set and is on the
\* screen once the whoami check has ended, whichever way it ended; the check
\* and the repository load it starts neither clear nor hide the message.
C22_AuthErrorStaysVisible ==
    [][(error = ErrAuth /\ authCall = "fetch" /\ authCall' # "fetch") =>
          (error' = ErrAuth /\ ErrorAlert')]_vars

\* No label of the list is empty or consists of blanks only.
NoBlankLabel(labels) == \A i \in DOMAIN labels : Trim(labels[i]) # ""

C24_OperationsFinish ==
    /\ creatingIssues ~> ~creatingIssues
    /\ generatingIssues ~> ~generatingIssues

\* A generation has failed and a commit has ended, and neither flag is set.
C24_Witness ==
    /\ lastGeneration = "failed"
    /\ \E k \in DOMAIN commits : commits[k].joined # "pending"
    /\ ~creatingIssues
    /\ ~generatingIssues

\* The commits that have a creation call in flight.
BatchesInFlight ==
    {k \in DOMAIN commits :
        \E i \in DOMAIN commits[k].calls : InFlight(commits[k].calls[i])}

C26_SelectionWithinList ==
    \A i \in DOMAIN selectedIssues :
        selectedIssues[i] \in 0..(Len(generatedIssues) - 1)

\* C27: while the client holds no user identity or no selected repository,
\* states that only a logout or a repository change leads to and in which no
\* generation can be started, the generated issue list is empty: the response
\* of a generation that was in flight at the logout or the change is not
\* installed.
C27_NoLateInstall ==
    (user = NoUser \/ selectedRepo = NoRepo) => generatedIssues = <<>>

\* The message is the result of a commit: the counts of a commit with a
\* success, or the message of one whose calls all failed.
CommitResult(message) == message = ErrAllFailed \/ message[1] = "created"

\* C28: the timer that a commit sets for its result message clears nothing but
\* the result message of a commit: when it fires, the message is the result of
\* a commit or has been cleared already, and is not the error of a generation
\* or of a repository load.
C28_TimerClearsOwnMessage ==
    [][timers' < timers => (error = NoError \/ CommitResult(error))]_vars

\* C29: the step in which a commit completes leaves the generated issue list
\* as it is, and it empties the selection, whatever the selection has become
\* since the commit began, when a call of the commit succeeded, and leaves
\* the selection as it is when none did.
C29_CompletionSelection ==
    [][\A k \in DOMAIN commits :
          (/\ creatingIssues /\ ~creatingIssues'
           /\ k \in DOMAIN commits'
           /\ commits[k].joined = "pending"
           /\ commits'[k].joined # "pending") =>
              /\ generatedIssues' = generatedIssues
              /\ selectedIssues' = IF Ended(commits'[k], "ok") # {}
                                      THEN <<>> ELSE selectedIssues]_vars

\* A commit with a succeeded and a failed call has completed: its message is
\* shown, nothing is selected and the issues are still listed.
C29_Witness ==
    /\ \E k \in DOMAIN commits :
          /\ commits[k].joined = "resolved"
          /\ Ended(commits[k], "ok") # {}
          /\ Ended(commits[k], "failed") # {}
    /\ error = MsgCreated(1, 1)
    /\ selectedIssues = <<>>
    /\ Len(generatedIssues) = 2

\* A commit whose calls all failed has completed with an item deselected
\* while it was in flight: the selection is what the user left.
C29_AllFailedWitness ==
    /\ \E k \in DOMAIN commits :
          /\ commits[k].joined = "resolved"
          /\ Ended(commits[k], "ok") = {}
          /\ Len(commits[k].calls) = 2
    /\ error = ErrAllFailed
    /\ Len(selectedIssues) = 1

\* The list after the step is the list before it with the record at the index
\* of the dialog replaced by the record of the dialog: same length, every
\* other record as it was.
ReplacedAtIndex ==
    /\ Len(generatedIssues') = Len(generatedIssues)
    /\ editModal.index + 1 \in DOMAIN generatedIssues
    /\ \A i \in DOMAIN generatedIssues :
          generatedIssues'[i] =
             IF i = editModal.index + 1 THEN editingIssue ELSE generatedIssues[i]

\* C30: a step that closes the edit dialog leaves the selection as it is and
\* the issue list either as it is or with exactly the record at the edited
\* index replaced by the edited copy; a save is of the second kind and a
\* cancel of the first.
C30_SaveReplacesOne ==
    [][/\ (editModal.isOpen /\ ~editModal'.isOpen) =>
             /\ selectedIssues' = selectedIssues
             /\ generatedIssues' = generatedIssues \/ ReplacedAtIndex
       /\ SaveEditedIssue => ReplacedAtIndex
       /\ CloseEditModal => generatedIssues' = generatedIssues]_vars
=============================================================================
